---- MODULE Spec2Model ----
(***************************************************************************)
(* A model of mewil/object-gateway (src/main.go): an HTTP gateway that     *)
(* lists one S3 bucket as a browsable tree and redirects object requests   *)
(* to pre-signed links.                                                    *)
(*                                                                         *)
(* Go strings are modelled as sequences of one-character strings, so that  *)
(* strings.Replace, strings.LastIndex, fmt's formatting and the            *)
(* tabwriter's padding act on text as the code's do.  An int64 is a        *)
(* little-endian sequence of base-1000 digits ("limbs"): <<48, 2>> is      *)
(* 2048.  One request is served per behaviour; requests share no mutable   *)
(* state (src/main.go:184-188).                                            *)
(***************************************************************************)
EXTENDS Integers, Sequences, FiniteSets, TLC

(***************************************************************************)
(* Bounds of the model.                                                    *)
(***************************************************************************)
\* the backend's page size (max-keys) ranges over 1..MaxPageSize
MaxPageSize == 3

(***************************************************************************)
(* Program constants.                                                      *)
(***************************************************************************)
\* const unit int64 = 1000
unit == 1000
\* http.StatusOK
StatusOK == 200
\* http.StatusInternalServerError
StatusInternalServerError == 500
\* http.StatusPermanentRedirect
StatusPermanentRedirect == 308
\* time.Minute*5, in seconds
FiveMinutes == 300
\* an int64 holds at most 7 base-1000 limbs (2^63-1 < 1000^7)
Int64Limbs == 7
\* the nil *string / the zero status of a response whose header is unsent
Nil == 0

(***************************************************************************)
(* The functions of Go's strings package that the code calls.  Offsets     *)
(* are Go's: 0-based, -1 for "not found".                                  *)
(***************************************************************************)
HasPrefix(s, pre) ==
    /\ Len(pre) <= Len(s)
    /\ SubSeq(s, 1, Len(pre)) = pre

HasSuffix(s, suf) ==
    /\ Len(suf) <= Len(s)
    /\ SubSeq(s, Len(s) - Len(suf) + 1, Len(s)) = suf

TrimPrefix(s, pre) ==
    IF HasPrefix(s, pre) THEN SubSeq(s, Len(pre) + 1, Len(s)) ELSE s

\* the offsets at which sub occurs in s
Occurrences(s, sub) ==
    { i \in 0..(Len(s) - Len(sub)) : SubSeq(s, i + 1, i + Len(sub)) = sub }

Min(S) == CHOOSE x \in S : \A y \in S : x <= y
Max(S) == CHOOSE x \in S : \A y \in S : x >= y

Index(s, sub) ==
    IF Occurrences(s, sub) = {} THEN -1 ELSE Min(Occurrences(s, sub))

LastIndex(s, sub) ==
    IF Occurrences(s, sub) = {} THEN -1 ELSE Max(Occurrences(s, sub))

\* strings.Replace(s, old, new, 1): the first occurrence only
ReplaceFirst(s, old, new) ==
    LET i == Index(s, old)
    IN  IF i < 0 THEN s
        ELSE SubSeq(s, 1, i) \o new \o SubSeq(s, i + Len(old) + 1, Len(s))

\* the byte value of the characters entry names are made of
Ord(c) ==
    CASE c = "." -> 46
      [] c = "/" -> 47
      [] c = "a" -> 97
      [] c = "b" -> 98
      [] c = "c" -> 99
      [] c = "d" -> 100
      [] c = "e" -> 101
      [] c = "p" -> 112
      [] c = "x" -> 120

\* Go's < on strings: bytewise lexicographic
RECURSIVE StrLess(_, _)
StrLess(s, t) ==
    IF t = <<>> THEN FALSE
    ELSE IF s = <<>> THEN TRUE
    ELSE IF Head(s) # Head(t) THEN Ord(Head(s)) < Ord(Head(t))
    ELSE StrLess(Tail(s), Tail(t))

RECURSIVE Concat(_)
Concat(ss) == IF ss = <<>> THEN <<>> ELSE Head(ss) \o Concat(Tail(ss))

(***************************************************************************)
(* fmt's %d of a number below 10^6.                                        *)
(***************************************************************************)
Digit(d) == <<"0", "1", "2", "3", "4", "5", "6", "7", "8", "9">>[d + 1]

RECURSIVE FmtInt(_)
FmtInt(n) == IF n < 10 THEN <<Digit(n)>> ELSE FmtInt(n \div 10) \o <<Digit(n % 10)>>

(***************************************************************************)
(* humanizeBytes (src/main.go:20-31).  b is an int64 >= 0 given by its     *)
(* limbs, so b < unit is Len(b) = 1 and b / unit is Tail(b).               *)
(***************************************************************************)
\* an int64 >= 0 in normal form: no leading zero limb, at most 2^63-1
MaxInt64 == <<807, 775, 854, 36, 372, 223, 9>>

RECURSIVE LimbsLeq(_, _)
LimbsLeq(a, b) ==
    IF Len(a) # Len(b) THEN Len(a) < Len(b)
    ELSE IF a = <<>> THEN TRUE
    ELSE IF a[Len(a)] # b[Len(b)] THEN a[Len(a)] < b[Len(b)]
    ELSE LimbsLeq(SubSeq(a, 1, Len(a) - 1), SubSeq(b, 1, Len(b) - 1))

IsInt64(b) ==
    /\ Len(b) \in 1..Int64Limbs
    /\ \A i \in 1..Len(b) : b[i] \in 0..(unit - 1)
    /\ (Len(b) > 1 => b[Len(b)] # 0)
    /\ LimbsLeq(b, MaxInt64)

\* "kMGTPE"
UnitSymbols == <<"k", "M", "G", "T", "P", "E">>

\* for n := b / unit; n >= unit; n /= unit { div *= unit; exp++ }
RECURSIVE ScaleLoop(_, _, _)
ScaleLoop(n, div, exp) ==
    IF Len(n) >= 2
    THEN ScaleLoop(Tail(n), <<0>> \o div, exp + 1)
    ELSE [div |-> div, exp |-> exp]

\* The hundredths that "%.2f" can print for float64(b)/float64(div), div a
\* power of 1000 with as many limbs as b.  The quotient is rounded to the
\* nearest hundredth; a float64 cannot tell a quotient within 10^-4
\* hundredths of a tie from the tie, and then either neighbour may print.
FmtFloat2(b, div) ==
    LET k     == Len(div) - 1
        int   == b[k + 1]
        next  == b[k]
        below == IF k >= 2 THEN b[k - 1] ELSE -1
        q     == int * 100 + (next \div 10)
        r     == next % 10
        tie   == \/ r = 5 /\ below \in {-1, 0}
                 \/ r = 4 /\ below = unit - 1
    IN  IF tie THEN {q, q + 1}
        ELSE IF r >= 5 THEN {q + 1}
        ELSE {q}

\* what Sprintf("%.2f %cB", ...) prints for q hundredths and unit symbol c
SprintfScaled(q, c) ==
    FmtInt(q \div 100) \o <<".", Digit((q \div 10) % 10), Digit(q % 10)>>
        \o <<" ", c, "B">>

Panic == <<"p", "a", "n", "i", "c">>

\* The renderings humanizeBytes can return for b: one, except at a rounding
\* tie.  "panic" stands for the index out of range of "kMGTPE"[exp].
humanizeBytes(b) ==
    IF Len(b) = 1
    THEN { [text |-> FmtInt(b[1]) \o <<" ", "B">>, exp |-> -1, hundredths |-> -1] }
    ELSE LET s == ScaleLoop(Tail(b), <<0, 1>>, 0)
         IN  IF s.exp >= Len(UnitSymbols)
             THEN { [text |-> Panic, exp |-> s.exp, hundredths |-> -1] }
             ELSE { [text       |-> SprintfScaled(q, UnitSymbols[s.exp + 1]),
                     exp        |-> s.exp,
                     hundredths |-> q] : q \in FmtFloat2(b, s.div) }

(***************************************************************************)
(* The storage backend behind S3API (src/main.go:56, 67-72, 98-102): a     *)
(* bucket of objects, listed by prefix with delimiter "/" in pages chained *)
(* by continuation tokens, and pre-signed GET links.                       *)
(***************************************************************************)
Slash == <<"/">>

\* the keys an object of the bucket may have
KeyPool == { <<"a">>, <<"a", "b">>, <<"e">>, <<"p", "/", "b">>, <<"p", "/",
    "c", "/", "x">>, <<"p", "/", "d">> }

\* object.Size of the object stored under a key
SizeOf(k) ==
    CASE k = <<"a">>     -> <<0>>
      [] k = <<"a", "b">>    -> <<1, 1>>
      [] k = <<"e">>     -> <<999>>
      [] k = <<"p", "/", "b">>   -> <<48, 2>>
      [] k = <<"p", "/", "c", "/", "x">> -> <<0, 500, 1>>
      [] k = <<"p", "/", "d">>   -> <<999, 999>>

\* object.LastModified, in seconds after 2021-01-01T00:00:00Z
ModifiedOf(k) ==
    CASE k = <<"a">>     -> 5
      [] k = <<"a", "b">>    -> 30
      [] k = <<"e">>     -> 0
      [] k = <<"p", "/", "b">>   -> 42
      [] k = <<"p", "/", "c", "/", "x">> -> 7
      [] k = <<"p", "/", "d">>   -> 59

\* What ListObjectsV2 with Delimiter "/" returns for one key under a prefix:
\* the object itself, or the common prefix up to the next delimiter.
ListedAs(k, prefix) ==
    LET rest == SubSeq(k, Len(prefix) + 1, Len(k))
        i    == Index(rest, Slash)
    IN  IF i < 0
        THEN [common |-> FALSE, name |-> k]
        ELSE [common |-> TRUE, name |-> prefix \o SubSeq(rest, 1, i + 1)]

ListedUnder(bucket, prefix) ==
    { ListedAs(k, prefix) : k \in { k \in bucket : HasPrefix(k, prefix) } }

\* the orders in which the backend may return a set of listed items
Orderings(items) ==
    { o \in [1..Cardinality(items) -> items] :
        \A i, j \in 1..Cardinality(items) : o[i] = o[j] => i = j }

NumPages(n, size) == IF n = 0 THEN 1 ELSE (n + size - 1) \div size

\* The ListObjectsV2Output of page k of n: the page's objects, its common
\* prefixes, IsTruncated and NextContinuationToken (the next page's number).
PageOf(order, size, k) ==
    LET n     == NumPages(Len(order), size)
        last  == IF k * size < Len(order) THEN k * size ELSE Len(order)
        chunk == SubSeq(order, (k - 1) * size + 1, last)
        objs  == SelectSeq(chunk, LAMBDA it : ~it.common)
        pres  == SelectSeq(chunk, LAMBDA it : it.common)
    IN  [Contents |-> [i \in 1..Len(objs) |->
                          [Key          |-> objs[i].name,
                           Size         |-> SizeOf(objs[i].name),
                           LastModified |-> ModifiedOf(objs[i].name)]],
         CommonPrefixes        |-> [i \in 1..Len(pres) |-> pres[i].name],
         IsTruncated           |-> k < n,
         NextContinuationToken |-> IF k < n THEN k + 1 ELSE Nil]

PagesOf(order, size) ==
    [k \in 1..NumPages(Len(order), size) |-> PageOf(order, size, k)]

\* req.Presign(duration): the signed URL of a key, carrying its expiry
Presign(k, duration) ==
    <<"u", ":", "/">> \o k \o <<"?", "E", "=">> \o FmtInt(duration)

\* err.Error() of a failed ListObjectsV2 and of a failed Presign
ListErrorText == <<"l", "i", "s", "t", " ", "f", "a", "i", "l", "e", "d">>
SignErrorText == <<"s", "i", "g", "n", " ", "f", "a", "i", "l", "e", "d">>

(***************************************************************************)
(* The http.ResponseWriter of net/http that the handler writes to, and     *)
(* the responseWriter wrapper of src/main.go:33-41 around it.              *)
(***************************************************************************)
\* the opening of an anchor up to its href, as fmt and net/http write it
HrefOpen == <<"<", "a", " ", "h", "r", "e", "f", "=", "\"">>
UpLinkEnd == <<"/", ".", ".", "\"", ">", ".", ".", "<", "/", "a", ">", "\n">>
RedirectEnd == <<"\"", ">", "P", "e", "r", "m", "a", "n", "e", "n", "t", " ",
    "R", "e", "d", "i", "r", "e", "c", "t", "<", "/", "a", ">", ".", "\n",
    "\n">>
PreOpen == <<"<", "p", "r", "e", ">", "\n">>
PreClose == <<"\n", "<", "/", "p", "r", "e", ">", "\n">>
RenderErrorHead == <<"e", "r", "r", "o", "r", " ", "g", "e", "t", "t", "i",
    "n", "g", " ", "p", "r", "e", "s", "i", "g", "n", "e", "d", " ", "l",
    "i", "n", "k", " ", "f", "o", "r", " ">>

HtmlType  == <<"t", "e", "x", "t", "/", "h", "t", "m", "l", ";", " ", "c",
    "h", "a", "r", "s", "e", "t", "=", "u", "t", "f", "-", "8">>
PlainType == <<"t", "e", "x", "t", "/", "p", "l", "a", "i", "n", ";", " ",
    "c", "h", "a", "r", "s", "e", "t", "=", "u", "t", "f", "-", "8">>

\* a fresh response: header map empty, status line not yet sent
NewResponse ==
    [header |-> [ContentType |-> <<>>, Location |-> <<>>],
     status |-> Nil,
     sent   |-> [ContentType |-> <<>>, Location |-> <<>>],
     body   |-> <<>>]

\* the embedded ResponseWriter's WriteHeader: the first call sends the status
\* line and the header map as it stands; a later call is ignored
InnerWriteHeader(w, code) ==
    IF w.status # Nil THEN w
    ELSE [w EXCEPT !.status = code, !.sent = w.header]

\* the embedded ResponseWriter's Write: sends 200 first if no status was sent
InnerWrite(w, data) ==
    LET w1 == InnerWriteHeader(w, StatusOK)
    IN  [w1 EXCEPT !.body = Append(@, data)]

\* func (w *responseWriter) WriteHeader(code int)
WriteHeader(rw, code) ==
    [ResponseWriter |-> InnerWriteHeader(rw.ResponseWriter, code),
     StatusCode     |-> code]

\* Write and Header are promoted from the embedded http.ResponseWriter
Write(rw, data) ==
    [rw EXCEPT !.ResponseWriter = InnerWrite(@, data)]

SetContentType(rw, v) ==
    [rw EXCEPT !.ResponseWriter.header.ContentType = v]

SetLocation(rw, v) ==
    [rw EXCEPT !.ResponseWriter.header.Location = v]

\* http.Error(w, msg, code)
HttpError(rw, msg, code) ==
    Write(WriteHeader(SetContentType(rw, PlainType), code), msg \o <<"\n">>)

\* http.Redirect(w, r, url, code) of a GET request
HttpRedirect(rw, url, code) ==
    LET hadType == rw.ResponseWriter.header.ContentType # <<>>
        rw1 == SetLocation(rw, url)
        rw2 == IF hadType THEN rw1 ELSE SetContentType(rw1, HtmlType)
        rw3 == WriteHeader(rw2, code)
    IN  IF hadType THEN rw3
        ELSE Write(rw3, HrefOpen \o url \o RedirectEnd)

(***************************************************************************)
(* listObjectsByPrefix (src/main.go:60-95).                                *)
(***************************************************************************)
\* key = strings.TrimPrefix(path, "/")
ListKey(p) == TrimPrefix(p, Slash)

\* a faulty variant: the loop over CommonPrefixes is left out
PageFilesWithoutPrefixes(page) ==
    [i \in 1..Len(page.Contents) |->
        [name         |-> page.Contents[i].Key,
         isDir        |-> FALSE,
         size         |-> page.Contents[i].Size,
         lastModified |-> page.Contents[i].LastModified]]

\* the entries appended for one page: its objects, then its common prefixes
PageFiles(page) ==
    [i \in 1..Len(page.Contents) |->
        [name         |-> page.Contents[i].Key,
         isDir        |-> FALSE,
         size         |-> page.Contents[i].Size,
         lastModified |-> page.Contents[i].LastModified]]
    \o
    [i \in 1..Len(page.CommonPrefixes) |->
        [name         |-> page.CommonPrefixes[i],
         isDir        |-> TRUE,
         size         |-> <<0>>,
         lastModified |-> 0]]

\* if !IsTruncated || NextContinuationToken == nil { break }
LastPage(page) ==
    \/ ~page.IsTruncated
    \/ page.NextContinuationToken = Nil

(***************************************************************************)
(* renderFileList (src/main.go:112-148).                                   *)
(***************************************************************************)
\* a faulty variant: the list is rendered in the order the pages gave it
Unsorted(l) == l

\* sort.Slice(list, func(i, j) bool { return list[i].name < list[j].name })
RECURSIVE SortByName(_)
SortByName(l) ==
    IF l = <<>> THEN <<>>
    ELSE LET least == CHOOSE i \in 1..Len(l) :
                          \A j \in 1..Len(l) : ~StrLess(l[j].name, l[i].name)
         IN  <<l[least]>> \o
             SortByName(SubSeq(l, 1, least - 1) \o SubSeq(l, least + 1, Len(l)))

\* dir.lastModified.Format(time.RFC3339), t seconds into 2021, t < 60
FormatRFC3339(t) ==
    <<"2", "0", "2", "1", "-", "0", "1", "-", "0", "1", "T", "0", "0", ":",
        "0", "0", ":">> \o <<Digit(t \div 10), Digit(t % 10)>> \o <<"Z">>

\* a faulty variant: strings.Index in the place of strings.LastIndex
UpLinkPathFirstIndex(p) == SubSeq(p, 1, Index(p, Slash))

\* path := r.URL.Path[:strings.LastIndex(r.URL.Path, "/")]
UpLinkPath(p) == SubSeq(p, 1, LastIndex(p, Slash))

\* what the header of the page writes: "<pre>\n", the path, the up link
PageHead(p) ==
    <<PreOpen, p \o <<"\n", "\n">>>> \o
    (IF p # Slash
     THEN <<HrefOpen \o UpLinkPath(p) \o UpLinkEnd>>
     ELSE <<>>)

\* a tabwriter cell: the text, padded with spaces to the column's width
PadTo(text, width) == text \o [i \in 1..(width - Len(text)) |-> " "]

\* the tab-terminated cells of an entry's line, and its trailing text
Cells(f, sizeText) ==
    IF f.isDir
    THEN [cells |-> <<f.name, <<>>, <<>>>>, trailing |-> <<>>]
    ELSE [cells |-> <<f.name, FormatRFC3339(f.lastModified)>>,
          trailing |-> sizeText]

\* tabwriter.NewWriter(buf, 0, 0, 1, ' ', 0): a column is as wide as its
\* widest cell plus one space of padding.  Every line has cells in columns
\* 1 and 2; only directory lines have a third, always empty.
TabLines(l, sizeTexts) ==
    LET line(i)  == Cells(l[i], sizeTexts[i])
        width(c) == Max({ Len(line(i).cells[c]) : i \in 1..Len(l) }) + 1
    IN  [i \in 1..Len(l) |->
            PadTo(line(i).cells[1], width(1))
            \o PadTo(line(i).cells[2], width(2))
            \o (IF l[i].isDir THEN PadTo(line(i).cells[3], 1) ELSE <<>>)
            \o line(i).trailing
            \o <<"\n">>]

\* the size columns humanizeBytes can give the entries of a list
RECURSIVE SizeTexts(_)
SizeTexts(l) ==
    IF l = <<>> THEN { <<>> }
    ELSE { <<o.text>> \o rest :
             o \in humanizeBytes(Head(l).size), rest \in SizeTexts(Tail(l)) }

\* a faulty variant: the link is the current path followed by the entry's name
DirLinkUnderPath(p, name) == p \o name

\* link = fmt.Sprintf("/%s", dir.name)
DirLink(p, name) == Slash \o name

\* fmt.Sprintf("<a href=\"%s\">%s</a>", link, dir.name)
Anchor(link, name) ==
    HrefOpen \o link \o <<"\"", ">">> \o name \o <<"<", "/", "a", ">">>

\* fmt.Errorf("error getting presigned link for %s: %v", dir.name, err)
RenderErrorText(name) ==
    RenderErrorHead \o name \o <<":", " ">> \o SignErrorText

(***************************************************************************)
(* buildHandler (src/main.go:150-172).                                     *)
(***************************************************************************)
\* if strings.HasSuffix(path, "/") { directory } else { object }
Mode(p) == IF HasSuffix(p, Slash) THEN "dir" ELSE "obj"

\* client.getPreSignedLink(path, time.Minute*5): the key of object mode
ObjectKey(p) == p

(***************************************************************************)
(* The state of one request, and of one call of humanizeBytes.             *)
(***************************************************************************)
VARIABLES
    path,      \* r.URL.Path
    pages,     \* the backend's pages for the listed prefix
    pc,        \* where the request is: start, list, render, link, sign, log, done
    token,     \* continuationToken
    listReqs,  \* the ContinuationToken of every ListObjectsV2 call made
    listErr,   \* the number of the call that failed, or 0
    files,     \* the files listObjectsByPrefix has gathered / returned
    list,      \* renderFileList's list, once sorted
    rows,      \* the lines the tabwriter flushed, before any link goes in
    content,   \* renderFileList's content
    idx,       \* the entry the link loop is at
    links,     \* the entry, link and anchor of every substitution made
    signReqs,  \* the Key and duration of every getPreSignedLink call
    signErr,   \* TRUE once a getPreSignedLink call has failed
    ww,        \* withLogging's responseWriter
    logs,      \* the lines withLogging printed
    hb,        \* humanizeBytes' argument
    hout       \* humanizeBytes' result; its text is empty before the call

vars == <<path, pages, pc, token, listReqs, listErr, files, list, rows,
          content, idx, links, signReqs, signErr, ww, logs, hb, hout>>

\* The request paths: http.Handle("/", ...) registers the handler on the
\* default mux, which only passes on clean paths.
Paths == { <<"/">>, <<"/", "p", "/">>, <<"/", "p", "/", "c", "/">>, <<"/",
    "e">>, <<"/", "p", "/", "b">> }

\* a request just received, nothing done yet
Idle(p, pgs) ==
    /\ path = p
    /\ pages = pgs
    /\ pc = "start"
    /\ token = Nil
    /\ listReqs = <<>>
    /\ listErr = 0
    /\ files = <<>>
    /\ list = <<>>
    /\ rows = <<>>
    /\ content = <<>>
    /\ idx = 0
    /\ links = <<>>
    /\ signReqs = <<>>
    /\ signErr = FALSE
    /\ ww = [ResponseWriter |-> NewResponse, StatusCode |-> Nil]
    /\ logs = <<>>

\* humanizeBytes has not returned
NoResult == [text |-> <<>>, exp |-> -1, hundredths |-> -1]

Init ==
    /\ hb = <<0>>
    /\ hout = NoResult
    /\ \E p \in Paths, bucket \in SUBSET KeyPool, size \in 1..MaxPageSize :
         IF Mode(p) = "dir"
         THEN \E order \in Orderings(ListedUnder(bucket, ListKey(p))) :
                 Idle(p, PagesOf(order, size))
         ELSE Idle(p, <<>>)

\* withLogging wraps the writer (StatusCode 200) and calls the handler, which
\* looks at the path's last character.  src/main.go:44-50, 151-153, 163
Serve ==
    /\ pc = "start"
    /\ ww' = [ww EXCEPT !.StatusCode = StatusOK]
    /\ pc' = IF Mode(path) = "dir" THEN "list" ELSE "sign"
    /\ UNCHANGED <<path, pages, token, listReqs, listErr, files, list, rows,
                   content, idx, links, signReqs, signErr, logs, hb, hout>>

\* One turn of listObjectsByPrefix's loop whose ListObjectsV2 call succeeds;
\* after the last page the list goes to renderFileList.  src/main.go:66-94
ListPage ==
    /\ pc = "list"
    /\ LET page == pages[IF token = Nil THEN 1 ELSE token]
       IN  /\ listReqs' = Append(listReqs, token)
           /\ files' = files \o PageFiles(page)
           /\ IF LastPage(page)
              THEN pc' = "render" /\ token' = token
              ELSE pc' = "list" /\ token' = page.NextContinuationToken
    /\ UNCHANGED <<path, pages, listErr, list, rows, content, idx, links,
                   signReqs, signErr, ww, logs, hb, hout>>

\* a faulty variant: a failed call ends the loop and the pages gathered are rendered
ListPageFailsKeepsPages ==
    /\ pc = "list"
    /\ listReqs' = Append(listReqs, token)
    /\ listErr' = Len(listReqs) + 1
    /\ pc' = "render"
    /\ UNCHANGED <<path, pages, token, files, list, rows, content, idx, links,
                   signReqs, signErr, ww, logs, hb, hout>>

\* A ListObjectsV2 call fails: listObjectsByPrefix returns nil and the error,
\* the handler answers with http.Error.  src/main.go:73-75, 155-158
ListPageFails ==
    /\ pc = "list"
    /\ listReqs' = Append(listReqs, token)
    /\ listErr' = Len(listReqs) + 1
    /\ files' = <<>>
    /\ ww' = HttpError(ww, ListErrorText, StatusInternalServerError)
    /\ pc' = "log"
    /\ UNCHANGED <<path, pages, token, list, rows, content, idx, links,
                   signReqs, signErr, logs, hb, hout>>

\* renderFileList up to the link loop: sort, header, "<pre>", path, up link,
\* and the tabwriter's lines.  src/main.go:113-133
RenderHead ==
    /\ pc = "render"
    /\ LET sorted == SortByName(files)
       IN  /\ list' = sorted
           /\ \E sizeTexts \in SizeTexts(sorted) :
                /\ rows' = TabLines(sorted, sizeTexts)
                /\ content' = Concat(TabLines(sorted, sizeTexts))
    /\ ww' = LET rw == SetContentType(ww, HtmlType)
                 hd == PageHead(path)
                 RECURSIVE WriteAll(_, _)
                 WriteAll(w, chunks) ==
                     IF chunks = <<>> THEN w
                     ELSE WriteAll(Write(w, Head(chunks)), Tail(chunks))
             IN  WriteAll(rw, hd)
    /\ idx' = 1
    /\ pc' = "link"
    /\ UNCHANGED <<path, pages, token, listReqs, listErr, files, links,
                   signReqs, signErr, logs, hb, hout>>

\* One turn of the link loop: the entry's link (for a file, a pre-signed link
\* that the backend grants) goes in at the first occurrence of its name.
\* src/main.go:134-145
LinkEntry ==
    /\ pc = "link"
    /\ idx <= Len(list)
    /\ LET dir  == list[idx]
           link == IF dir.isDir THEN DirLink(path, dir.name)
                   ELSE Presign(dir.name, FiveMinutes)
           a    == Anchor(link, dir.name)
       IN  /\ signReqs' = IF dir.isDir THEN signReqs
                          ELSE Append(signReqs, [Key |-> dir.name,
                                                 duration |-> FiveMinutes])
           /\ content' = ReplaceFirst(content, dir.name, a)
           /\ links' = Append(links, [entry |-> dir, link |-> link, anchor |-> a])
    /\ idx' = idx + 1
    /\ UNCHANGED <<path, pages, pc, token, listReqs, listErr, files, list,
                   rows, signErr, ww, logs, hb, hout>>

\* getPreSignedLink fails for a file entry: renderFileList returns the error
\* and the handler answers with http.Error.  src/main.go:139-142, 159-161
LinkEntryFails ==
    /\ pc = "link"
    /\ idx <= Len(list)
    /\ ~list[idx].isDir
    /\ signReqs' = Append(signReqs, [Key |-> list[idx].name,
                                     duration |-> FiveMinutes])
    /\ signErr' = TRUE
    /\ ww' = HttpError(ww, RenderErrorText(list[idx].name),
                       StatusInternalServerError)
    /\ pc' = "log"
    /\ UNCHANGED <<path, pages, token, listReqs, listErr, files, list, rows,
                   content, idx, links, logs, hb, hout>>

\* the loop is over: the content and "</pre>" are written.  src/main.go:146-147
RenderTail ==
    /\ pc = "link"
    /\ idx > Len(list)
    /\ ww' = Write(ww, content \o PreClose)
    /\ pc' = "log"
    /\ UNCHANGED <<path, pages, token, listReqs, listErr, files, list, rows,
                   content, idx, links, signReqs, signErr, logs, hb, hout>>

\* object mode, the link is granted: redirect to it.  src/main.go:164, 169
Redirect ==
    /\ pc = "sign"
    /\ signReqs' = Append(signReqs, [Key |-> ObjectKey(path),
                                     duration |-> FiveMinutes])
    /\ ww' = HttpRedirect(ww, Presign(ObjectKey(path), FiveMinutes),
                          StatusPermanentRedirect)
    /\ pc' = "log"
    /\ UNCHANGED <<path, pages, token, listReqs, listErr, files, list, rows,
                   content, idx, links, signErr, logs, hb, hout>>

\* object mode, getPreSignedLink fails.  src/main.go:164-168
RedirectFails ==
    /\ pc = "sign"
    /\ signReqs' = Append(signReqs, [Key |-> ObjectKey(path),
                                     duration |-> FiveMinutes])
    /\ signErr' = TRUE
    /\ ww' = HttpError(ww, SignErrorText, StatusInternalServerError)
    /\ pc' = "log"
    /\ UNCHANGED <<path, pages, token, listReqs, listErr, files, list, rows,
                   content, idx, links, logs, hb, hout>>

\* the handler has returned: withLogging prints its line.  src/main.go:51
LogRequest ==
    /\ pc = "log"
    /\ logs' = Append(logs, [method |-> "GET", status |-> ww.StatusCode,
                             path |-> path])
    /\ pc' = "done"
    /\ UNCHANGED <<path, pages, token, listReqs, listErr, files, list, rows,
                   content, idx, links, signReqs, signErr, ww, hb, hout>>

Next ==
    \/ Serve
    \/ ListPage
    \/ ListPageFails
    \/ RenderHead
    \/ LinkEntry
    \/ LinkEntryFails
    \/ RenderTail
    \/ Redirect
    \/ RedirectFails
    \/ LogRequest

Spec == Init /\ [][Next]_vars

(***************************************************************************)
(* humanizeBytes on its own: one call per behaviour, on any int64 >= 0     *)
(* whose limbs are among LimbValues, and on the largest int64.             *)
(***************************************************************************)
LimbValues == {0, 1, 5, 48, 500, 999}

HumanizeInputs ==
    { b \in UNION { [1..n -> LimbValues] : n \in 1..Int64Limbs } : IsInt64(b) }
        \cup {MaxInt64}

InitH ==
    /\ Idle(Slash, <<>>)
    /\ hb \in HumanizeInputs
    /\ hout = NoResult

\* humanizeBytes(hb) is called and returns.  src/main.go:20-31
Humanize ==
    /\ hout = NoResult
    /\ \E o \in humanizeBytes(hb) : hout' = o
    /\ UNCHANGED <<hb, path, pages, pc, token, listReqs, listErr, files, list,
                   rows, content, idx, links, signReqs, signErr, ww, logs>>

NextH == Humanize

SpecH == InitH /\ [][NextH]_vars

(***************************************************************************)
(* What the client has received.                                           *)
(***************************************************************************)
\* the status line sent; a handler that never sends one gets 200 on return
SentStatus ==
    IF ww.ResponseWriter.status = Nil THEN StatusOK ELSE ww.ResponseWriter.status

SentBody == ww.ResponseWriter.body

SentHeader == ww.ResponseWriter.sent

\* renderFileList has run its header and its tabwriter
Rendered == pc \in {"link", "log", "done"} /\ Mode(path) = "dir" /\ listErr = 0

(***************************************************************************)
(* The claims.                                                             *)
(***************************************************************************)
\* the entries the backend's pages hold, read off the pages themselves
EntriesOfPages ==
    UNION { { [name |-> pages[k].Contents[i].Key, isDir |-> FALSE,
               size |-> pages[k].Contents[i].Size,
               lastModified |-> pages[k].Contents[i].LastModified] :
                 i \in 1..Len(pages[k].Contents) }
            \cup
            { [name |-> pages[k].CommonPrefixes[i], isDir |-> TRUE,
               size |-> <<0>>, lastModified |-> 0] :
                 i \in 1..Len(pages[k].CommonPrefixes) } :
            k \in 1..Len(pages) }

\* C1: once listObjectsByPrefix has returned without error, its result holds
\* every object and every common prefix of every page, each exactly once,
\* and the calls made were: the first page, then each next page with the
\* token the page before it gave, up to the page that reports no more.
C1_ListingIsUnionOfPages ==
    (Mode(path) = "dir" /\ listErr = 0) =>
        /\ Len(listReqs) <= Len(pages)
        /\ \A k \in 1..Len(listReqs) :
              listReqs[k] = IF k = 1 THEN Nil
                            ELSE pages[k - 1].NextContinuationToken
        /\ (pc = "list" => (listReqs # <<>> => pages[Len(listReqs)].IsTruncated))
        /\ (pc \in {"render", "link", "log", "done"} =>
              /\ Len(listReqs) = Len(pages)
              /\ { files[i] : i \in 1..Len(files) } = EntriesOfPages
              /\ Len(files) = Cardinality(EntriesOfPages))

\* a listing of three pages holding files and a directory has been gathered
C1_Witness ==
    /\ pc = "render"
    /\ Len(pages) = 3
    /\ Len(files) = 3
    /\ \E i, j \in 1..Len(files) : files[i].isDir /\ ~files[j].isDir

\* C2 (as claimed): a directory-mode response is either the complete page
\* with status 200, or status 500 with the error text alone as body; after a
\* failed link generation it is the latter.
C2_RenderAllOrNothing ==
    (pc = "done" /\ Mode(path) = "dir") =>
        /\ \/ /\ SentStatus = StatusOK
              /\ SentBody = PageHead(path) \o <<content \o PreClose>>
           \/ /\ SentStatus = StatusInternalServerError
              /\ Len(SentBody) = 1
        /\ signErr => SentStatus = StatusInternalServerError

\* C3: when the k-th ListObjectsV2 call fails, no further call is made,
\* listObjectsByPrefix returns no entries, nothing is rendered or signed, and
\* the response is status 500 with the error message as its body.
C3_ListErrorAborts ==
    listErr > 0 =>
        /\ Len(listReqs) = listErr
        /\ files = <<>>
        /\ rows = <<>> /\ content = <<>> /\ links = <<>> /\ signReqs = <<>>
        /\ pc \in {"log", "done"}
        /\ SentStatus = StatusInternalServerError
        /\ SentBody = <<ListErrorText \o <<"\n">>>>

\* the call for the third page failed, after two pages with entries
C3_Witness ==
    /\ listErr = 3
    /\ pc = "done"
    /\ Len(pages[1].Contents) + Len(pages[1].CommonPrefixes) > 0

\* C4 (as claimed): in object mode the link is requested for the request
\* path without its leading separator, for 5 minutes, and on success the
\* response is a 308 whose Location is that link.
C4_ObjectKeyIsTrimmedPath ==
    Mode(path) = "obj" =>
        /\ \A i \in 1..Len(signReqs) :
              /\ signReqs[i].Key = TrimPrefix(path, Slash)
              /\ signReqs[i].duration = FiveMinutes
        /\ (pc = "done" /\ ~signErr =>
              /\ SentStatus = StatusPermanentRedirect
              /\ SentHeader.Location = Presign(TrimPrefix(path, Slash), FiveMinutes))

\* C5 (as claimed): one line is logged per request, after the handler, and
\* the status it records is the status sent to the client.
C5_LoggedStatusIsSentStatus ==
    /\ pc # "done" => logs = <<>>
    /\ pc = "done" => /\ Len(logs) = 1
                      /\ logs[1].status = SentStatus

\* C6 (as claimed): after a successful render every line is the tabwriter's
\* line with the entry's name, at its start, wrapped in the entry's anchor,
\* and nothing else changed.
C6_EachRowOneAnchor ==
    (Rendered /\ pc \in {"log", "done"} /\ ~signErr) =>
        content = Concat([i \in 1..Len(rows) |->
                     links[i].anchor
                     \o SubSeq(rows[i], Len(list[i].name) + 1, Len(rows[i]))])

\* the request path without its final segment
ParentOf(p) ==
    LET q == SubSeq(p, 1, Len(p) - 1)
    IN  SubSeq(q, 1, LastIndex(q, Slash) + 1)

\* the segments of an absolute path: "/p/c/" has p, c and an empty last one
RECURSIVE Segments(_)
Segments(p) ==
    LET rest == Tail(p)
        i    == Index(rest, Slash)
    IN  IF i < 0 THEN <<rest>>
        ELSE <<SubSeq(rest, 1, i)>> \o Segments(SubSeq(rest, i + 1, Len(rest)))

\* RFC 3986, 5.2.4: the path a reference resolves to once its "." and ".."
\* segments are removed
RECURSIVE Resolve(_, _)
Resolve(segs, out) ==
    IF segs = <<>> THEN out
    ELSE LET sg   == Head(segs)
             last == Len(segs) = 1
             up   == IF out = <<>> THEN <<>> ELSE SubSeq(out, 1, Len(out) - 1)
         IN  IF sg = <<".", ".">>
             THEN Resolve(Tail(segs), IF last THEN Append(up, <<>>) ELSE up)
             ELSE IF sg = <<".">>
             THEN Resolve(Tail(segs), IF last THEN Append(out, <<>>) ELSE out)
             ELSE Resolve(Tail(segs), Append(out, sg))

RemoveDotSegments(p) ==
    LET segs == Resolve(Segments(p), <<>>)
    IN  Concat([i \in 1..Len(segs) |-> Slash \o segs[i]])

AnchorMid == <<"\"", ">">>
AnchorEnd == <<"<", "/", "a", ">">>

UpLinkOpen  == <<"<", "a", " ", "h", "r", "e", "f", "=", "\"">>
UpLinkClose == <<"\"", ">", ".", ".", "<", "/", "a", ">", "\n">>

\* the places of the page's body that are an "up" link
UpLinks ==
    { i \in 1..Len(SentBody) :
        /\ HasPrefix(SentBody[i], UpLinkOpen)
        /\ HasSuffix(SentBody[i], UpLinkClose) }

UpLinkTarget(chunk) ==
    SubSeq(chunk, Len(UpLinkOpen) + 1, Len(chunk) - Len(UpLinkClose))

\* C7: the page of "/" has no "up" link; the page of any other directory path
\* has exactly one, and it leads to the path without its final segment.
C7_UpLink ==
    Rendered =>
        IF path = Slash THEN UpLinks = {}
        ELSE /\ Cardinality(UpLinks) = 1
             /\ \A i \in UpLinks :
                   RemoveDotSegments(UpLinkTarget(SentBody[i])) = ParentOf(path)

\* the page of /p/c/ has been sent in full
C7_Witness ==
    /\ pc = "done"
    /\ path = <<"/", "p", "/", "c", "/">>
    /\ ~signErr /\ listErr = 0
    /\ UpLinks # {}

SixUnits == <<"k", "M", "G", "T", "P", "E">>

\* the digits before the decimal point of a scaled rendering
DisplayedIntegerDigits(text) == Index(text, <<".">>)

\* C8 (as claimed): b < 1000 is printed as "<b> B"; otherwise the unit is the
\* e-th of k, M, G, T, P, E with 1000^(e+1) <= b < 1000^(e+2), and the value
\* displayed with two decimals is below 1000.
C8_HumanizeBytes ==
    hout # NoResult =>
        /\ Len(hb) = 1 => hout.text = FmtInt(hb[1]) \o <<" ", "B">>
        /\ Len(hb) > 1 =>
              /\ hout.exp \in 0..5
              /\ Len(hb) = hout.exp + 2
              /\ HasSuffix(hout.text, <<" ", SixUnits[hout.exp + 1], "B">>)
              /\ DisplayedIntegerDigits(hout.text) \in 1..3
        /\ hb = <<0>> => hout.text = <<"0", " ", "B">>
        /\ hb = <<999>> => hout.text = <<"9", "9", "9", " ", "B">>
        /\ hb = <<0, 1>> => hout.text = <<"1", ".", "0", "0", " ", "k", "B">>
        /\ hb = <<0, 500, 1>> => hout.text = <<"1", ".", "5", "0", " ", "M",
            "B">>
        /\ hb = <<0, 0, 0, 0, 1>> => hout.text = <<"1", ".", "0", "0", " ",
            "T", "B">>

\* C9: the link of a directory entry is "/" followed by the entry's name
\* whatever the request path is, its anchor carries that link, and a request
\* for that link is served in directory mode and lists the prefix that is
\* the entry's name.
C9_DirectoryLinkRoundTrip ==
    \A i \in 1..Len(links) :
        links[i].entry.isDir =>
            /\ links[i].link = Slash \o links[i].entry.name
            /\ links[i].anchor = UpLinkOpen \o Slash \o links[i].entry.name
                                   \o AnchorMid \o links[i].entry.name
                                   \o AnchorEnd
            /\ Mode(links[i].link) = "dir"
            /\ ListKey(links[i].link) = links[i].entry.name

\* the directory p/c/ has been linked in the listing of /p/
C9_Witness ==
    /\ path = <<"/", "p", "/">>
    /\ \E i \in 1..Len(links) :
          links[i].entry.isDir /\ links[i].entry.name = <<"p", "/", "c", "/">>

\* the name a tabwriter line starts with
RowName(row) == SubSeq(row, 1, Index(row, <<" ">>))

\* C10: the lines of the listing are in ascending bytewise order of the
\* entries' names, whatever their kind and the order the pages gave them
\* in, and every entry has exactly one line.
C10_RowsSortedByName ==
    Rendered =>
        /\ Len(rows) = Len(files)
        /\ \A i, j \in 1..Len(rows) :
              i < j => StrLess(RowName(rows[i]), RowName(rows[j]))
        /\ \A k \in 1..Len(files) :
              Cardinality({ i \in 1..Len(rows) :
                              RowName(rows[i]) = files[k].name }) = 1

\* a directory's line stands between two files' lines, and the pages gave
\* the entries in another order
C10_Witness ==
    /\ pc = "done"
    /\ Len(rows) = 3
    /\ ~list[1].isDir /\ list[2].isDir /\ ~list[3].isDir
    /\ files[1].isDir

====
